---------------------------- MODULE Spec2Model ----------------------------
(***************************************************************************)
(* s3-bulk-copy-object (src/main.go): a bounded-concurrency S3 copy        *)
(* orchestrator.  main() parses two addresses, creates a session and a     *)
(* context with an optional timeout, then either copies one object in the  *)
(* main flow (non-recursive) or lists the source bucket page by page and   *)
(* launches one goroutine per listed key behind a counting semaphore       *)
(* (recursive), waits on a WaitGroup and returns.                          *)
(*                                                                         *)
(* Strings are sequences of one-character strings.  The alphabet of the    *)
(* model has no '?', '#', '%', '@' or control characters, so the query,    *)
(* fragment, escaping and userinfo branches of net/url never apply.        *)
(***************************************************************************)
EXTENDS Integers, Sequences, FiniteSets, TLC

(***************************************************************************)
(* Bounds of the model.                                                    *)
(***************************************************************************)
\* the source bucket holds at most this many objects
MaxKeys == 3
\* the store returns at most this many keys in one listing page
MaxPageLen == 2
\* args.Concurrency ranges over 1..MaxConcurrency
MaxConcurrency == 2

(***************************************************************************)
(* String helpers (Go: strings, path, net/url).                            *)
(***************************************************************************)
Letters == {"a", "b", "c", "d", "e", "f", "g", "h", "i", "j", "k", "l", "m",
            "n", "o", "p", "q", "r", "s", "t", "u", "v", "w", "x", "y", "z"}
Digits == {"0", "1", "2", "3", "4", "5", "6", "7", "8", "9"}

\* strings.HasPrefix
HasPrefix(s, p) == Len(s) >= Len(p) /\ SubSeq(s, 1, Len(p)) = p

\* s without its first n characters
Drop(s, n) == SubSeq(s, n + 1, Len(s))

\* strings.TrimPrefix(s, "/")
TrimPrefix(s, p) == IF HasPrefix(s, p) THEN Drop(s, Len(p)) ELSE s

\* index of the first occurrence of character c in s, 0 if none
RECURSIVE IndexFrom(_, _, _)
IndexFrom(s, c, i) ==
    IF i > Len(s) THEN 0
    ELSE IF s[i] = c THEN i
    ELSE IndexFrom(s, c, i + 1)

IndexOf(s, c) == IndexFrom(s, c, 1)

\* the "/"-separated elements of s, empty ones included (strings.Split)
RECURSIVE Split(_)
Split(s) ==
    LET i == IndexOf(s, "/")
    IN  IF i = 0 THEN << s >>
        ELSE << SubSeq(s, 1, i - 1) >> \o Split(Drop(s, i))

\* elements joined with "/" (strings.Join)
RECURSIVE JoinSegs(_)
JoinSegs(segs) ==
    IF Len(segs) = 0 THEN << >>
    ELSE IF Len(segs) = 1 THEN segs[1]
    ELSE segs[1] \o << "/" >> \o JoinSegs(Tail(segs))

DotDot == << ".", "." >>

\* the element stack path.Clean keeps while it scans the elements of a path
RECURSIVE CleanStack(_, _, _)
CleanStack(segs, stack, rooted) ==
    IF Len(segs) = 0 THEN stack
    ELSE LET e == Head(segs)
             rest == Tail(segs)
         IN  IF e = << >> \/ e = << "." >>
                 THEN CleanStack(rest, stack, rooted)
             ELSE IF e = DotDot
                 THEN IF Len(stack) > 0 /\ stack[Len(stack)] # DotDot
                          THEN CleanStack(rest, SubSeq(stack, 1, Len(stack) - 1), rooted)
                      ELSE IF rooted
                          THEN CleanStack(rest, stack, rooted)
                      ELSE CleanStack(rest, Append(stack, e), rooted)
             ELSE CleanStack(rest, Append(stack, e), rooted)

\* path.Clean: the shortest path equivalent to p by lexical processing
PathClean(p) ==
    IF p = << >> THEN << "." >>
    ELSE LET rooted == p[1] = "/"
             out == (IF rooted THEN << "/" >> ELSE << >>)
                        \o JoinSegs(CleanStack(Split(p), << >>, rooted))
         IN  IF out = << >> THEN << "." >> ELSE out

\* path.Join without the final Clean: plain concatenation with one "/"
PathJoinNoClean(a, b) ==
    IF a = << >> THEN b
    ELSE IF b = << >> THEN a
    ELSE a \o << "/" >> \o b

\* path.Join(a, b): the non-empty elements joined with "/", then Clean
PathJoin(a, b) ==
    IF Len(a) + Len(b) = 0 THEN << >>
    ELSE IF a = << >> THEN PathClean(b)
    ELSE IF b = << >> THEN PathClean(a)
    ELSE PathClean(a \o << "/" >> \o b)

\* url.QueryEscape: letters, digits, '-', '_', '.', '~' are kept, every other
\* byte becomes %XX
EscapeChar(c) ==
    IF c \in Letters \cup Digits \cup {"-", "_", ".", "~"} THEN << c >>
    ELSE IF c = "/" THEN << "%", "2", "F" >>
    ELSE IF c = ":" THEN << "%", "3", "A" >>
    ELSE << "%", "?", "?" >>

RECURSIVE QueryEscape(_)
QueryEscape(s) ==
    IF s = << >> THEN << >> ELSE EscapeChar(Head(s)) \o QueryEscape(Tail(s))


\* whether every character of s is a decimal digit
AllDigits(s) == \A i \in 1..Len(s) : s[i] \in Digits

\* net/url getScheme: the length of the scheme of raw, 0 when it has none,
\* -1 when raw starts with ':' ("missing protocol scheme")
RECURSIVE SchemeLen(_, _)
SchemeLen(raw, i) ==
    IF i > Len(raw) THEN 0
    ELSE IF raw[i] \in Letters THEN SchemeLen(raw, i + 1)
    ELSE IF raw[i] \in Digits \cup {"+", "-", "."}
        THEN IF i = 1 THEN 0 ELSE SchemeLen(raw, i + 1)
    ELSE IF raw[i] = ":"
        THEN IF i = 1 THEN -1 ELSE i - 1
    ELSE 0

NoURL == [Scheme |-> << >>, Host |-> << >>, Path |-> << >>, Opaque |-> << >>]

\* url.Parse(raw): [err, url].  A scheme followed by "//" has an authority up
\* to the next "/", and the rest is the path; a scheme followed by anything
\* that does not start with "/" is an opaque URL; a port must be digits.
ParseURL(raw) ==
    LET n == SchemeLen(raw, 1)
        scheme == IF n > 0 THEN SubSeq(raw, 1, n) ELSE << >>
        rest == IF n > 0 THEN Drop(raw, n + 1) ELSE raw
        auth0 == Drop(rest, 2)
        slash == IndexOf(auth0, "/")
        authority == IF slash = 0 THEN auth0 ELSE SubSeq(auth0, 1, slash - 1)
        after == IF slash = 0 THEN << >> ELSE Drop(auth0, slash - 1)
        colon == IndexOf(authority, ":")
    IN  IF n = -1 THEN [err |-> "missing protocol scheme", url |-> NoURL]
        ELSE IF ~HasPrefix(rest, << "/" >>) /\ scheme # << >>
            THEN [err |-> "nil", url |-> [NoURL EXCEPT !.Scheme = scheme, !.Opaque = rest]]
        ELSE IF ~HasPrefix(rest, << "/" >>) /\ IndexOf(Head(Split(rest)), ":") > 0
            THEN [err |-> "first path segment in URL cannot contain colon", url |-> NoURL]
        ELSE IF HasPrefix(rest, << "/", "/" >>) /\ (scheme # << >> \/ ~HasPrefix(rest, << "/", "/", "/" >>))
            THEN IF colon > 0 /\ ~AllDigits(Drop(authority, colon))
                     THEN [err |-> "invalid port", url |-> NoURL]
                 ELSE [err |-> "nil",
                       url |-> [NoURL EXCEPT !.Scheme = scheme, !.Host = authority, !.Path = after]]
        ELSE [err |-> "nil", url |-> [NoURL EXCEPT !.Scheme = scheme, !.Path = rest]]

(***************************************************************************)
(* The inputs: command lines and the contents of the source bucket.        *)
(***************************************************************************)
S3 == << "s", "3" >>

\* SOURCE arguments: one object, a whole bucket, a wrong scheme, no scheme
SrcFile == << "s", "3", ":", "/", "/", "s", "r", "c", "/", "f", "i", "l", "e", ".", "t", "x", "t" >>
SrcBucket == << "s", "3", ":", "/", "/", "s", "r", "c", "/" >>
SrcHttp == << "h", "t", "t", "p", ":", "/", "/", "s", "r", "c", "/", "f", "i", "l", "e", ".", "t", "x", "t" >>
SrcBad == << ":", "s", "r", "c" >>
Sources == {SrcFile, SrcBucket, SrcHttp, SrcBad}

\* DESTINATION arguments: a prefix, a bare bucket, a wrong scheme, a bad port
DstBackup == << "s", "3", ":", "/", "/", "d", "s", "t", "/", "b", "a", "c", "k", "u", "p", "/" >>
DstBucket == << "s", "3", ":", "/", "/", "d", "s", "t" >>
DstHttp == << "h", "t", "t", "p", ":", "/", "/", "d", "s", "t", "/", "b", "a", "c", "k", "u", "p", "/" >>
DstBad == << "s", "3", ":", "/", "/", "d", "s", "t", ":", "x", "/" >>
Destinations == {DstBackup, DstBucket, DstHttp, DstBad}

\* the command lines of the model: every source with the backup prefix as
\* destination, and every destination with the single-object source
Addresses == (Sources \X {DstBackup}) \cup ({SrcFile} \X Destinations)

\* the keys the source bucket can hold, in the store's listing order
Catalog == << << "a", "/", "b", "/", "c", ".", "t", "x", "t" >>,
             << "f", "i", "l", "e", ".", "t", "x", "t" >>,
             << "k", "/", "/", "e" >>,
             << "p", "/" >>,
             << "x", "/", ".", ".", "/", "u" >> >>

\* a source bucket with two keys that differ only by a doubled slash
Twins == << << "k", "/", "/", "e" >>, << "k", "/", "e" >> >>

Min(a, b) == IF a < b THEN a ELSE b

\* the source bucket holds the first n keys of the catalog
Bucket(n) == SubSeq(Catalog, 1, Min(n, Len(Catalog)))

\* the subsequence of keys that start with prefix (the store's ListObjects)
RECURSIVE Matching(_, _)
Matching(keys, prefix) ==
    IF keys = << >> THEN << >>
    ELSE (IF HasPrefix(Head(keys), prefix) THEN << Head(keys) >> ELSE << >>)
             \o Matching(Tail(keys), prefix)


(***************************************************************************)
(* The state of the process.                                               *)
(***************************************************************************)
VARIABLES
    args,        \* the parsed command line (Source, Destination, Concurrency, Recursive, Timeout, Wait)
    objects,     \* the keys of the source bucket, in listing order
    pc,          \* where main() is
    source,      \* url.Parse(args.Source)
    target,      \* url.Parse(args.Destination)
    err,         \* main's err variable: "nil" or the error
    ctx,         \* "none" before it is created, "background", "active", "expired", "canceled"
    semaphore,   \* number of elements in the semaphore channel
    wg,          \* the WaitGroup counter
    listed,      \* number of keys the listing has returned so far
    listCalls,   \* number of ListObjects requests made
    cur,         \* index of the key the listing callback is dispatching
    workers,     \* the copyObject calls: 0 is the call in the main flow, i >= 1 the goroutine of key i
    doneAtDeadline, \* number of copyObject calls whose remote work had ended when the deadline fired, -1 before
    exitStatus,  \* the exit status of the process, -1 while it runs
    dest,        \* the objects of the destination bucket: which source key each Key was copied from
    first        \* what an earlier run of the same command line left behind, if there was one

vars == << args, objects, pc, source, target, err, ctx, semaphore, wg, listed,
           listCalls, cur, workers, doneAtDeadline, exitStatus, dest, first >>

Calls == 0..MaxKeys

\* a copyObject call that has not been made
\* (calls, waitCalls: requests sent; copyRes, waitRes: what they returned;
\* records: outcome lines logged; outcome: the last one logged)
Idle == [pc |-> "idle", sourcePath |-> << >>, targetPath |-> << >>,
         calls |-> 0, copyRes |-> "none", waitCalls |-> 0, waitRes |-> "none",
         records |-> 0, outcome |-> "none"]

\* the keys ListObjects returns for Prefix = strings.TrimPrefix(source.Path, "/")
Listing == Matching(objects, TrimPrefix(source.Path, << "/" >>))

\* the context's Done channel is closed
CtxDone == ctx \in {"expired", "canceled"}

Running == exitStatus = -1

\* the remote work of call w (the copy call and the optional wait) has ended
RemoteDone(w) == workers[w].pc \in {"deferDone", "deferRelease", "returned"}

\* the call was made and its remote work has not ended
InFlight(w) == workers[w].pc \in {"start", "copying", "waiting"}

ConcurrencyValues == 1..MaxConcurrency

TimeoutValues == {0, 60}

\* every value of --timeout the argument parser accepts: any duration, here
\* a negative one, zero (the default), and a positive one
AcceptedTimeout == {-1} \cup TimeoutValues

\* every value of --concurrency the argument parser accepts: any int, here
\* a negative one, zero, and the positive ones
AcceptedConcurrency == -1..MaxConcurrency

\* the state after the arguments are parsed, with --concurrency, --timeout, the two
\* addresses and the source bucket drawn from the sets given, the destination
\* bucket empty
\* no earlier run
NoRun == [done |-> FALSE]

InitOf(concurrencies, timeouts, addresses, buckets) ==
    /\ args \in {a \in [Source : Sources, Destination : Destinations,
                         Concurrency : concurrencies, Recursive : BOOLEAN,
                         Timeout : timeouts, Wait : BOOLEAN] :
                     << a.Source, a.Destination >> \in addresses}
    /\ objects \in buckets
    /\ dest = {}
    /\ first = NoRun
    /\ pc = "parseSource"
    /\ source = NoURL
    /\ target = NoURL
    /\ err = "nil"
    /\ ctx = "none"
    /\ semaphore = 0
    /\ wg = 0
    /\ listed = 0
    /\ listCalls = 0
    /\ cur = 0
    /\ workers = [w \in Calls |-> Idle]
    /\ doneAtDeadline = -1
    /\ exitStatus = -1

Buckets == {Bucket(n) : n \in 0..MaxKeys}

Init == InitOf(ConcurrencyValues, TimeoutValues, Addresses, Buckets)

InitAnyTimeout == InitOf(ConcurrencyValues, AcceptedTimeout, Addresses, Buckets)

InitAnyConcurrency == InitOf(AcceptedConcurrency, TimeoutValues, Addresses, Buckets)

\* os.Exit(code): the process ends, with every goroutine
Exit(code) ==
    /\ exitStatus' = code
    /\ pc' = "exited"

(***************************************************************************)
(* main(): configuration.                                                  *)
(***************************************************************************)
\* source, err := url.Parse(args.Source)
ParseSource ==
    /\ pc = "parseSource"
    /\ LET r == ParseURL(args.Source)
       IN  /\ source' = r.url
           /\ err' = r.err
    /\ pc' = "checkSource"
    /\ UNCHANGED << dest, first, args, objects, target, ctx, semaphore, wg, listed, listCalls,
                    cur, workers, doneAtDeadline, exitStatus >>

\* if err != nil { os.Exit(1) }
CheckSource ==
    /\ pc = "checkSource"
    /\ IF err # "nil"
           THEN Exit(1)
           ELSE pc' = "parseTarget" /\ UNCHANGED exitStatus
    /\ UNCHANGED << dest, first, args, objects, source, target, err, ctx, semaphore, wg, listed,
                    listCalls, cur, workers, doneAtDeadline >>

\* target, err := url.Parse(args.Destination)
ParseTarget ==
    /\ pc = "parseTarget"
    /\ LET r == ParseURL(args.Destination)
       IN  /\ target' = r.url
           /\ err' = r.err
    /\ pc' = "checkTarget"
    /\ UNCHANGED << dest, first, args, objects, source, ctx, semaphore, wg, listed, listCalls,
                    cur, workers, doneAtDeadline, exitStatus >>

\* CheckTarget that exits with the status of a source error
CheckTargetAsSource ==
    /\ pc = "checkTarget"
    /\ IF err # "nil"
           THEN Exit(1)
           ELSE pc' = "checkScheme" /\ UNCHANGED exitStatus
    /\ UNCHANGED << dest, first, args, objects, source, target, err, ctx, semaphore, wg, listed,
                    listCalls, cur, workers, doneAtDeadline >>

\* if err != nil { os.Exit(2) }
CheckTarget ==
    /\ pc = "checkTarget"
    /\ IF err # "nil"
           THEN Exit(2)
           ELSE pc' = "checkScheme" /\ UNCHANGED exitStatus
    /\ UNCHANGED << dest, first, args, objects, source, target, err, ctx, semaphore, wg, listed,
                    listCalls, cur, workers, doneAtDeadline >>

\* if source.Scheme != "s3" || target.Scheme != "s3" { os.Exit(3) }
CheckScheme ==
    /\ pc = "checkScheme"
    /\ IF source.Scheme # S3 \/ target.Scheme # S3
           THEN Exit(3)
           ELSE pc' = "newSession" /\ UNCHANGED exitStatus
    /\ UNCHANGED << dest, first, args, objects, source, target, err, ctx, semaphore, wg, listed,
                    listCalls, cur, workers, doneAtDeadline >>

\* sess, err := session.NewSession(...): it succeeds or fails
NewSession ==
    /\ pc = "newSession"
    /\ \E e \in {"nil", "session"} : err' = e
    /\ pc' = "checkSession"
    /\ UNCHANGED << dest, first, args, objects, source, target, ctx, semaphore, wg, listed,
                    listCalls, cur, workers, doneAtDeadline, exitStatus >>

\* if err != nil { os.Exit(4) }
CheckSession ==
    /\ pc = "checkSession"
    /\ IF err # "nil"
           THEN Exit(4)
           ELSE pc' = "makeContext" /\ UNCHANGED exitStatus
    /\ UNCHANGED << dest, first, args, objects, source, target, err, ctx, semaphore, wg, listed,
                    listCalls, cur, workers, doneAtDeadline >>

\* MakeContext that sets a deadline whatever args.Timeout is
MakeContextAlwaysDeadline ==
    /\ pc = "makeContext"
    /\ ctx' = "active"
    /\ semaphore' = 0
    /\ wg' = 0
    /\ pc' = IF args.Recursive THEN "list" ELSE "copyOnce"
    /\ UNCHANGED << dest, first, args, objects, source, target, err, listed, listCalls, cur,
                    workers, doneAtDeadline, exitStatus >>

\* ctx := context.Background(); with a positive timeout, context.WithTimeout;
\* semaphore := make(chan struct{}, args.Concurrency); var wg sync.WaitGroup
\* (make panics on a negative size: the deferred cancelFn runs and the
\* process ends with the runtime's status for a panic, 2)
MakeContext ==
    /\ pc = "makeContext"
    /\ semaphore' = 0
    /\ wg' = 0
    /\ IF args.Concurrency < 0
           THEN /\ ctx' = IF args.Timeout > 0 THEN "canceled" ELSE "background"
                /\ Exit(2)
           ELSE /\ ctx' = IF args.Timeout > 0 THEN "active" ELSE "background"
                /\ pc' = IF args.Recursive THEN "list" ELSE "copyOnce"
                /\ UNCHANGED exitStatus
    /\ UNCHANGED << dest, first, args, objects, source, target, err, listed, listCalls, cur,
                    workers, doneAtDeadline >>

\* Deadline that also cancels a send the dispatcher is waiting in: the
\* callback stops and the listing returns the context's error
DeadlineCancellingAdmission ==
    /\ Running
    /\ ctx = "active"
    /\ ctx' = "expired"
    /\ doneAtDeadline' = Cardinality({w \in Calls : RemoteDone(w)})
    /\ pc' = IF pc = "acquire" THEN "listReturned" ELSE pc
    /\ err' = IF pc = "acquire" THEN "canceled" ELSE err
    /\ UNCHANGED << dest, first, args, objects, source, target, semaphore, wg, listed,
                    listCalls, cur, workers, exitStatus >>

\* the timer of context.WithTimeout fires: the context is done from now on
Deadline ==
    /\ Running
    /\ ctx = "active"
    /\ ctx' = "expired"
    /\ doneAtDeadline' = Cardinality({w \in Calls : RemoteDone(w)})
    /\ UNCHANGED << dest, first, args, objects, pc, source, target, err, semaphore, wg, listed,
                    listCalls, cur, workers, exitStatus >>

(***************************************************************************)
(* main(): the recursive branch.  ListObjectsPagesWithContext requests one *)
(* page at a time and runs the callback on each page before it requests    *)
(* the next one; it returns the first request's error, or nil after the    *)
(* last page.                                                              *)
(***************************************************************************)
\* ListPage that collects the keys of every page before the first dispatch
ListPageCollecting ==
    /\ pc = "list"
    /\ listCalls' = listCalls + 1
    /\ \/ /\ err' = IF CtxDone THEN "canceled" ELSE "list"
          /\ pc' = "listReturned"
          /\ UNCHANGED << listed, cur >>
       \/ /\ ~CtxDone
          /\ \E n \in 0..Min(MaxPageLen, Len(Listing) - listed) :
                /\ n = 0 <=> Len(Listing) = listed
                /\ listed' = listed + n
                /\ cur' = 1
                /\ pc' = IF n = 0 THEN "listReturned"
                         ELSE IF listed + n < Len(Listing) THEN "list"
                         ELSE "add"
          /\ err' = "nil"
    /\ UNCHANGED << dest, first, args, objects, source, target, ctx, semaphore, wg, workers,
                    doneAtDeadline, exitStatus >>

\* one ListObjects request: it fails (always, once the context is done), or
\* returns the next n keys; the callback then ranges over p.Contents
ListPage ==
    /\ pc = "list"
    /\ listCalls' = listCalls + 1
    /\ \/ /\ err' = IF CtxDone THEN "canceled" ELSE "list"
          /\ pc' = "listReturned"
          /\ UNCHANGED << listed, cur >>
       \/ /\ ~CtxDone
          /\ \E n \in 0..Min(MaxPageLen, Len(Listing) - listed) :
                /\ n = 0 <=> Len(Listing) = listed
                /\ listed' = listed + n
                /\ cur' = listed + 1
                /\ pc' = IF n = 0 THEN "listReturned" ELSE "add"
          /\ err' = "nil"
    /\ UNCHANGED << dest, first, args, objects, source, target, ctx, semaphore, wg, workers,
                    doneAtDeadline, exitStatus >>

\* wg.Add(1)
WgAdd ==
    /\ pc = "add"
    /\ wg' = wg + 1
    /\ pc' = "acquire"
    /\ UNCHANGED << dest, first, args, objects, source, target, err, ctx, semaphore, listed,
                    listCalls, cur, workers, doneAtDeadline, exitStatus >>

\* Acquire with a channel made one element larger than args.Concurrency
AcquireOversized ==
    /\ pc = "acquire"
    /\ semaphore < args.Concurrency + 1
    /\ semaphore' = semaphore + 1
    /\ pc' = "spawn"
    /\ UNCHANGED << dest, first, args, objects, source, target, err, ctx, wg, listed, listCalls,
                    cur, workers, doneAtDeadline, exitStatus >>

\* semaphore <- struct{}{}: blocks while the channel is full
Acquire ==
    /\ pc = "acquire"
    /\ semaphore < args.Concurrency
    /\ semaphore' = semaphore + 1
    /\ pc' = "spawn"
    /\ UNCHANGED << dest, first, args, objects, source, target, err, ctx, wg, listed, listCalls,
                    cur, workers, doneAtDeadline, exitStatus >>

\* TargetPath by plain concatenation
TargetPathNoClean(sourcePath) == PathJoinNoClean(target.Path, sourcePath)

\* targetPath := path.Join(target.Path, sourcePath)
TargetPath(sourcePath) == PathJoin(target.Path, sourcePath)

\* go copyObject(source.Host, sourcePath, target.Host, targetPath); then the
\* next key of the page, the next page, or the end of the listing
Spawn ==
    /\ pc = "spawn"
    /\ workers' = [workers EXCEPT ![cur] =
                       [Idle EXCEPT !.pc = "start",
                                    !.sourcePath = Listing[cur],
                                    !.targetPath = TargetPath(Listing[cur])]]
    /\ cur' = cur + 1
    /\ pc' = IF cur < listed THEN "add"
             ELSE IF listed < Len(Listing) THEN "list"
             ELSE "listReturned"
    /\ UNCHANGED << dest, first, args, objects, source, target, err, ctx, semaphore, wg, listed,
                    listCalls, doneAtDeadline, exitStatus >>

\* CheckList without the test of err: a failed listing is waited out like a
\* complete one
CheckListIgnoringErr ==
    /\ pc = "listReturned"
    /\ pc' = "wgWait"
    /\ UNCHANGED << dest, first, args, objects, source, target, err, ctx, semaphore, wg, listed,
                    listCalls, cur, workers, doneAtDeadline, exitStatus >>

\* if err != nil { os.Exit(5) }, else on to wg.Wait()
CheckList ==
    /\ pc = "listReturned"
    /\ IF err # "nil"
           THEN Exit(5)
           ELSE pc' = "wgWait" /\ UNCHANGED exitStatus
    /\ UNCHANGED << dest, first, args, objects, source, target, err, ctx, semaphore, wg, listed,
                    listCalls, cur, workers, doneAtDeadline >>

\* wg.Wait(): blocks until the counter is zero
WgWait ==
    /\ pc = "wgWait"
    /\ wg = 0
    /\ pc' = "return"
    /\ UNCHANGED << dest, first, args, objects, source, target, err, ctx, semaphore, wg, listed,
                    listCalls, cur, workers, doneAtDeadline, exitStatus >>

(***************************************************************************)
(* main(): the non-recursive branch.                                       *)
(***************************************************************************)
\* targetPath := path.Join(target.Path, source.Path);
\* copyObject(source.Host, source.Path, target.Host, targetPath), in the main flow
CopyOnce ==
    /\ pc = "copyOnce"
    /\ workers' = [workers EXCEPT ![0] =
                       [Idle EXCEPT !.pc = "start",
                                    !.sourcePath = source.Path,
                                    !.targetPath = TargetPath(source.Path)]]
    /\ pc' = "inCopyObject"
    /\ UNCHANGED << dest, first, args, objects, source, target, err, ctx, semaphore, wg, listed,
                    listCalls, cur, doneAtDeadline, exitStatus >>

\* main returns: the deferred cancelFn runs, and the process exits with 0
Return ==
    /\ \/ pc = "return"
       \/ pc = "inCopyObject" /\ workers[0].pc = "returned"
    /\ ctx' = IF ctx = "active" THEN "canceled" ELSE ctx
    /\ Exit(0)
    /\ UNCHANGED << dest, first, args, objects, source, target, err, semaphore, wg, listed,
                    listCalls, cur, workers, doneAtDeadline >>

(***************************************************************************)
(* copyObject(sourceBucket, sourcePath, targetBucket, targetPath).         *)
(***************************************************************************)
\* the CopyObjectInput of call w
CopyRequest(w) ==
    [CopySource |-> QueryEscape(PathJoin(source.Host, workers[w].sourcePath)),
     Bucket |-> target.Host,
     Key |-> workers[w].targetPath]

\* AfterBody with the two deferred calls registered in every mode
AfterBodyAlwaysDeferred == "deferDone"

\* where copyObject goes when its body ends: the two deferred calls are
\* registered only if args.Recursive
AfterBody == IF args.Recursive THEN "deferDone" ELSE "returned"

\* the results a remote call bound to ctx can return now
Results == IF CtxDone THEN {"canceled"} ELSE {"ok", "err"}

\* the store answers a request as it answered the same request of the
\* earlier run, if there was one and the context does not cut the call short
CopyReplays(w, r) ==
    IF first.done /\ ~CtxDone THEN r = first.workers[w].copyRes ELSE TRUE

WaitReplays(w, r) ==
    IF first.done /\ ~CtxDone THEN r = first.workers[w].waitRes ELSE TRUE

\* the destination bucket after an object is written at key: an object
\* already there is overwritten
Put(bucket, key, from) ==
    {o \in bucket : o.Key # key} \cup {[Key |-> key, From |-> from]}

\* the destination bucket after the copy request of call w returned r
Stored(w, r) ==
    IF r = "ok" THEN Put(dest, workers[w].targetPath, workers[w].sourcePath)
    ELSE dest

\* svc.CopyObjectWithContext(ctx, ...) is called
StartCopy(w) ==
    /\ Running
    /\ workers[w].pc = "start"
    /\ workers' = [workers EXCEPT ![w].pc = "copying", ![w].calls = @ + 1]
    /\ UNCHANGED << dest, first, args, objects, pc, source, target, err, ctx, semaphore, wg,
                    listed, listCalls, cur, doneAtDeadline, exitStatus >>

\* CopyReturn whose error path cancels the shared context
CopyReturnCancelling(w) ==
    /\ Running
    /\ workers[w].pc = "copying"
    /\ \E r \in Results :
          /\ dest' = Stored(w, r)
          /\ workers' = [workers EXCEPT ![w] =
                 IF r # "ok"
                     THEN [@ EXCEPT !.copyRes = r, !.outcome = "copyFailed", !.records = @ + 1,
                               !.pc = AfterBody]
                 ELSE IF args.Wait
                     THEN [@ EXCEPT !.copyRes = r, !.waitCalls = @ + 1, !.pc = "waiting"]
                 ELSE [@ EXCEPT !.copyRes = r, !.outcome = "success", !.records = @ + 1,
                               !.pc = AfterBody]]
          /\ ctx' = IF r # "ok" THEN "canceled" ELSE ctx
    /\ UNCHANGED << first, args, objects, pc, source, target, err, semaphore, wg,
                    listed, listCalls, cur, doneAtDeadline, exitStatus >>

\* CopyReturn whose error path logs with a fatal logger: the process exits 1
CopyReturnFatal(w) ==
    /\ Running
    /\ workers[w].pc = "copying"
    /\ \E r \in Results :
          /\ dest' = Stored(w, r)
          /\ workers' = [workers EXCEPT ![w] =
                 IF r # "ok"
                     THEN [@ EXCEPT !.copyRes = r, !.outcome = "copyFailed", !.records = @ + 1,
                               !.pc = AfterBody]
                 ELSE IF args.Wait
                     THEN [@ EXCEPT !.copyRes = r, !.waitCalls = @ + 1, !.pc = "waiting"]
                 ELSE [@ EXCEPT !.copyRes = r, !.outcome = "success", !.records = @ + 1,
                               !.pc = AfterBody]]
          /\ IF r # "ok" THEN Exit(1) ELSE UNCHANGED << pc, exitStatus >>
    /\ UNCHANGED << first, args, objects, source, target, err, ctx, semaphore, wg,
                    listed, listCalls, cur, doneAtDeadline >>

\* CopyReturn that sends the copy request again after a failed attempt
CopyReturnRetrying(w) ==
    /\ Running
    /\ workers[w].pc = "copying"
    /\ \E r \in Results :
          /\ dest' = Stored(w, r)
          /\ workers' = [workers EXCEPT ![w] =
              IF r # "ok" /\ workers[w].calls < 2
                  THEN [@ EXCEPT !.copyRes = r, !.pc = "start"]
              ELSE IF r # "ok"
                  THEN [@ EXCEPT !.copyRes = r, !.outcome = "copyFailed", !.records = @ + 1,
                               !.pc = AfterBody]
              ELSE IF args.Wait
                  THEN [@ EXCEPT !.copyRes = r, !.waitCalls = @ + 1, !.pc = "waiting"]
              ELSE [@ EXCEPT !.copyRes = r, !.outcome = "success", !.records = @ + 1,
                               !.pc = AfterBody]]
    /\ UNCHANGED << first, args, objects, pc, source, target, err, ctx, semaphore, wg,
                    listed, listCalls, cur, doneAtDeadline, exitStatus >>

\* CopyReturn whose error path logs the failure and does not return
CopyReturnFallingThrough(w) ==
    /\ Running
    /\ workers[w].pc = "copying"
    /\ \E r \in Results :
          /\ dest' = Stored(w, r)
          /\ workers' = [workers EXCEPT ![w] =
              IF r # "ok" /\ args.Wait
                  THEN [@ EXCEPT !.copyRes = r, !.outcome = "copyFailed",
                                 !.records = @ + 1, !.waitCalls = @ + 1,
                                 !.pc = "waiting"]
              ELSE IF r # "ok"
                  THEN [@ EXCEPT !.copyRes = r, !.outcome = "success",
                                 !.records = @ + 2, !.pc = AfterBody]
              ELSE IF args.Wait
                  THEN [@ EXCEPT !.copyRes = r, !.waitCalls = @ + 1, !.pc = "waiting"]
              ELSE [@ EXCEPT !.copyRes = r, !.outcome = "success", !.records = @ + 1,
                             !.pc = AfterBody]]
    /\ UNCHANGED << first, args, objects, pc, source, target, err, ctx, semaphore, wg,
                    listed, listCalls, cur, doneAtDeadline, exitStatus >>

\* the copy call returns: on an error the failure is logged and copyObject
\* returns; otherwise it waits if args.Wait, or logs the success
CopyReturn(w) ==
    /\ Running
    /\ workers[w].pc = "copying"
    /\ \E r \in Results :
          /\ CopyReplays(w, r)
          /\ dest' = Stored(w, r)
          /\ workers' = [workers EXCEPT ![w] =
              IF r # "ok"
                  THEN [@ EXCEPT !.copyRes = r, !.outcome = "copyFailed", !.records = @ + 1,
                               !.pc = AfterBody]
              ELSE IF args.Wait
                  THEN [@ EXCEPT !.copyRes = r, !.waitCalls = @ + 1, !.pc = "waiting"]
              ELSE [@ EXCEPT !.copyRes = r, !.outcome = "success", !.records = @ + 1,
                               !.pc = AfterBody]]
    /\ UNCHANGED << first, args, objects, pc, source, target, err, ctx, semaphore, wg,
                    listed, listCalls, cur, doneAtDeadline, exitStatus >>

\* svc.WaitUntilObjectExistsWithContext(ctx, ...) returns: the failure or
\* the success is logged
WaitReturn(w) ==
    /\ Running
    /\ workers[w].pc = "waiting"
    /\ \E r \in Results :
          /\ WaitReplays(w, r)
          /\ workers' = [workers EXCEPT ![w] =
              [@ EXCEPT !.waitRes = r,
                        !.outcome = IF r = "ok" THEN "success" ELSE "waitFailed",
                        !.records = @ + 1,
                        !.pc = AfterBody]]
    /\ UNCHANGED << dest, first, args, objects, pc, source, target, err, ctx, semaphore, wg,
                    listed, listCalls, cur, doneAtDeadline, exitStatus >>

\* defer wg.Done(): registered last, so it runs first
DeferDone(w) ==
    /\ Running
    /\ workers[w].pc = "deferDone"
    /\ wg' = wg - 1
    /\ workers' = [workers EXCEPT ![w].pc = "deferRelease"]
    /\ UNCHANGED << dest, first, args, objects, pc, source, target, err, ctx, semaphore, listed,
                    listCalls, cur, doneAtDeadline, exitStatus >>

\* DeferRelease as a receive at the end of the body instead of a deferred
\* one: the error paths return without it
DeferReleaseOnSuccessOnly(w) ==
    /\ Running
    /\ workers[w].pc = "deferRelease"
    /\ workers[w].outcome = "success" => semaphore > 0
    /\ semaphore' = IF workers[w].outcome = "success" THEN semaphore - 1 ELSE semaphore
    /\ workers' = [workers EXCEPT ![w].pc = "returned"]
    /\ UNCHANGED << dest, first, args, objects, pc, source, target, err, ctx, wg, listed,
                    listCalls, cur, doneAtDeadline, exitStatus >>

\* defer func() { <-semaphore }(): registered first, so it runs last
DeferRelease(w) ==
    /\ Running
    /\ workers[w].pc = "deferRelease"
    /\ semaphore > 0
    /\ semaphore' = semaphore - 1
    /\ workers' = [workers EXCEPT ![w].pc = "returned"]
    /\ UNCHANGED << dest, first, args, objects, pc, source, target, err, ctx, wg, listed,
                    listCalls, cur, doneAtDeadline, exitStatus >>

Next ==
    \/ ParseSource
    \/ CheckSource
    \/ ParseTarget
    \/ CheckTarget
    \/ CheckScheme
    \/ NewSession
    \/ CheckSession
    \/ MakeContext
    \/ Deadline
    \/ ListPage
    \/ WgAdd
    \/ Acquire
    \/ Spawn
    \/ CheckList
    \/ WgWait
    \/ CopyOnce
    \/ Return
    \/ \E w \in Calls : StartCopy(w)
    \/ \E w \in Calls : CopyReturn(w)
    \/ \E w \in Calls : WaitReturn(w)
    \/ \E w \in Calls : DeferDone(w)
    \/ \E w \in Calls : DeferRelease(w)

Spec == Init /\ [][Next]_vars

\* the same command line is run again after a run that returned normally,
\* without a deadline having fired: the process starts afresh, the two
\* buckets are as the first run left them
Restart ==
    /\ exitStatus = 0
    /\ doneAtDeadline = -1
    /\ ~first.done
    /\ first' = [done |-> TRUE, workers |-> workers, dest |-> dest]
    /\ pc' = "parseSource"
    /\ source' = NoURL
    /\ target' = NoURL
    /\ err' = "nil"
    /\ ctx' = "none"
    /\ semaphore' = 0
    /\ wg' = 0
    /\ listed' = 0
    /\ listCalls' = 0
    /\ cur' = 0
    /\ workers' = [w \in Calls |-> Idle]
    /\ exitStatus' = -1
    /\ UNCHANGED << args, objects, dest, doneAtDeadline >>

NextTwice ==
    \/ Next
    \/ Restart

\* the program run once or twice on a bucket of well-formed keys or on the
\* twins, from the bucket address to the backup prefix
InitTwice ==
    InitOf(ConcurrencyValues, TimeoutValues, {<< SrcBucket, DstBackup >>},
           {Bucket(1), Bucket(2), Twins})

SpecTwice == InitTwice /\ [][NextTwice]_vars

\* the same program, started with any accepted value of --timeout
SpecAnyTimeout == InitAnyTimeout /\ [][Next]_vars

\* the same program, started with any accepted value of --concurrency
SpecAnyConcurrency == InitAnyConcurrency /\ [][Next]_vars

(***************************************************************************)
(* Derived quantities used by the properties.                              *)
(***************************************************************************)
\* the goroutines of the recursive batch
Goroutines == 1..MaxKeys

Count(S) == Cardinality(S)

\* copyObject calls that were made
Launched == {w \in Calls : workers[w].pc # "idle"}

\* copyObject calls that logged their outcome
Reported == {w \in Calls : workers[w].outcome # "none"}

\* slots acquired so far: one per launched goroutine, and the one of the key
\* being dispatched once its send went through
Acquired == Count({w \in Goroutines : workers[w].pc # "idle"}) + (IF pc = "spawn" THEN 1 ELSE 0)

\* slots released so far: one per goroutine that ran its deferred receive
Released == Count({w \in Goroutines : workers[w].pc = "returned"})

Failures == {"copyFailed", "waitFailed"}

(***************************************************************************)
(* C1.  In a recursive batch the number of copyObject goroutines that were *)
(* launched and have not finished their remote work is at most             *)
(* args.Concurrency, and so is the number of elements in the semaphore     *)
(* channel (the acquired, unreleased slots).                               *)
(***************************************************************************)
C1_BoundedInFlight ==
    args.Recursive =>
        /\ Count({w \in Goroutines : InFlight(w)}) <= args.Concurrency
        /\ semaphore <= args.Concurrency
        /\ Acquired - Released <= args.Concurrency

\* the pool is full of running workers and the dispatcher is blocked on the send
C1_Witness ==
    /\ args.Recursive
    /\ pc = "acquire"
    /\ args.Concurrency >= 2
    /\ semaphore = args.Concurrency
    /\ Count({w \in Goroutines : InFlight(w)}) = args.Concurrency

(***************************************************************************)
(* C2.  The process never exits while a launched copyObject call is still  *)
(* outstanding: in every state in which the process has exited, every      *)
(* call that was launched has reported its outcome.                        *)
(***************************************************************************)
C2_NoExitWhileOutstanding ==
    exitStatus # -1 => \A w \in Launched : workers[w].outcome # "none"

(***************************************************************************)
(* C3.  When the process exits from the batch, the number of outcomes      *)
(* recorded equals the number of keys listed: 1 in non-recursive mode, the *)
(* sum of the lengths of the pages the listing returned in recursive mode. *)
(***************************************************************************)
C3_OutcomesEqualKeysListed ==
    exitStatus \in {0, 5} =>
        Count(Reported) = (IF args.Recursive THEN listed ELSE 1)

(***************************************************************************)
(* C4.  As claimed: no slot is released twice, and when the process exits  *)
(* after the final wait no acquired slot remains unreleased.               *)
(***************************************************************************)
C4_NoSlotOutstandingAtExit ==
    /\ Released <= Acquired
    /\ (args.Recursive /\ exitStatus = 0) => semaphore = 0 /\ Released = Acquired

(***************************************************************************)
(* C4, amended.  Every slot is released at most once, by its worker's last *)
(* step and whatever the worker's outcome: the channel always holds        *)
(* exactly the acquired and not yet released slots.  When the process      *)
(* exits after the final wait every launched worker has signalled the      *)
(* WaitGroup, and the slots still held are exactly those of the workers    *)
(* that signalled and have not yet run their deferred receive.             *)
(***************************************************************************)
C4_SlotsReleasedAtMostOnce ==
    /\ semaphore = Acquired - Released
    /\ semaphore >= 0
    /\ wg >= 0
    /\ (args.Recursive /\ exitStatus = 0) =>
           /\ \A w \in Goroutines : workers[w].pc \in {"idle", "deferRelease", "returned"}
           /\ semaphore = Count({w \in Goroutines : workers[w].pc = "deferRelease"})

\* the process has returned from main while a failed worker still holds its slot
C4_Witness ==
    /\ args.Recursive
    /\ exitStatus = 0
    /\ semaphore > 0
    /\ \E w \in Goroutines : workers[w].pc = "deferRelease" /\ workers[w].outcome \in Failures
    /\ \E w \in Goroutines : workers[w].pc = "returned" /\ workers[w].outcome = "success"

(***************************************************************************)
(* C5.  Isolation.  A copy failure does not touch the shared context,      *)
(* every copyObject call reports a success exactly when its own remote     *)
(* calls succeeded, and in a batch whose listing succeeds every listed key *)
(* has been launched and has reported by the time the process exits.       *)
(***************************************************************************)
OwnCallsSucceeded(w) ==
    /\ workers[w].copyRes = "ok"
    /\ args.Wait => workers[w].waitRes = "ok"

C5_Isolation ==
    /\ Running => ctx # "canceled"
    /\ \A w \in Calls : workers[w].copyRes = "canceled" => ctx = "expired"
    /\ \A w \in Calls : workers[w].outcome = "success" <=> (RemoteDone(w) /\ OwnCallsSucceeded(w))
    /\ (args.Recursive /\ exitStatus = 0) =>
           /\ listed = Len(Listing)
           /\ \A k \in 1..Len(Listing) : workers[k].calls = 1 /\ workers[k].outcome # "none"

\* one copy call of N >= 2 failed, the deadline did not fire, the other N-1
\* are reported as successes
C5_Witness ==
    /\ args.Recursive
    /\ exitStatus = 0
    /\ doneAtDeadline = -1
    /\ Len(Listing) >= 2
    /\ \E f \in 1..Len(Listing) :
          /\ workers[f].copyRes = "err"
          /\ workers[f].outcome = "copyFailed"
          /\ \A k \in 1..Len(Listing) \ {f} : workers[k].outcome = "success"

(***************************************************************************)
(* C6.  Deadline semantics.  If the deadline fired when no copyObject call *)
(* had finished its remote work, then in every state in which the process  *)
(* has exited every launched call has reported a failure.                  *)
(***************************************************************************)
C6_DeadlineFailsEveryWorker ==
    (exitStatus # -1 /\ doneAtDeadline = 0) =>
        \A w \in Launched : workers[w].outcome \in Failures

(***************************************************************************)
(* C7.  As claimed: whenever the listing has reported an error, no copy    *)
(* request has been issued.                                                *)
(***************************************************************************)
ListFailed == err \in {"list", "canceled"}

C7_NoCopyBeforeListingFailure ==
    ListFailed => \A w \in Calls : workers[w].calls = 0

(***************************************************************************)
(* C7, amended.  A listing failure is one fatal error for the whole batch: *)
(* nothing is dispatched after it and the process exits with status 5.  It *)
(* precedes every copy only when the first listing request fails; when a   *)
(* later request fails, exactly the keys of the pages already returned     *)
(* have workers, which may have issued their copy requests.                *)
(***************************************************************************)
C7_ListingFailureIsFatal ==
    ListFailed =>
        /\ pc \in {"listReturned", "exited"}
        /\ pc = "exited" => exitStatus = 5
        /\ Launched = 1..listed
        /\ listCalls = 1 => \A w \in Calls : workers[w].calls = 0

\* a later page's request failed after a copy request of an earlier page was issued
C7_Witness ==
    /\ exitStatus = 5
    /\ listCalls >= 2
    /\ \E w \in Goroutines : workers[w].calls = 1

(***************************************************************************)
(* C8.  The exit status is decided by the configuration and listing errors *)
(* alone: 1..4 for the configuration errors, 5 for a listing error, and 0  *)
(* otherwise, however many items failed.                                   *)
(***************************************************************************)
ExpectedStatus ==
    LET s == ParseURL(args.Source)
        t == ParseURL(args.Destination)
    IN  IF s.err # "nil" THEN 1
        ELSE IF t.err # "nil" THEN 2
        ELSE IF s.url.Scheme # S3 \/ t.url.Scheme # S3 THEN 3
        ELSE IF err = "session" THEN 4
        ELSE IF ListFailed THEN 5
        ELSE 0

C8_ExitStatusOnlyFatal ==
    /\ pc = "exited" <=> exitStatus # -1
    /\ pc = "exited" => exitStatus = ExpectedStatus

\* every item of a batch of at least two failed and the exit status is 0
C8_Witness ==
    /\ args.Recursive
    /\ exitStatus = 0
    /\ Len(Listing) >= 2
    /\ \A k \in 1..Len(Listing) : workers[k].outcome \in Failures
    /\ \E k \in 1..Len(Listing) : workers[k].copyRes = "err"

(***************************************************************************)
(* C9.  Destination key derivation: the target key of every copyObject     *)
(* call is the source key K placed under the destination path P with its   *)
(* relative structure preserved, that is P, a "/" if P does not end with   *)
(* one, and K (a leading "/" of either side apart), for every non-empty K. *)
(***************************************************************************)
NoLead(s) == TrimPrefix(s, << "/" >>)

WithSlash(p) == IF p = << >> \/ p[Len(p)] = "/" THEN p ELSE p \o << "/" >>

Under(p, k) == WithSlash(p) \o NoLead(k)

C9_TargetKeyPreservesStructure ==
    \A w \in Launched :
        NoLead(workers[w].sourcePath) # << >> =>
            NoLead(workers[w].targetPath) = NoLead(Under(target.Path, workers[w].sourcePath))

(***************************************************************************)
(* C10.  As claimed: a non-recursive copy makes no listing call, issues    *)
(* one copy call and records one outcome, and s3://src/file.txt to         *)
(* s3://dst/backup/ copies src/file.txt to the target key backup/file.txt. *)
(***************************************************************************)
SrcSlashFile == << "s", "r", "c", "/", "f", "i", "l", "e", ".", "t", "x", "t" >>

C10_CopyToBackupFile ==
    (~args.Recursive /\ exitStatus = 0) =>
        /\ listCalls = 0
        /\ workers[0].calls = 1
        /\ Count(Reported) = 1
        /\ (args.Source = SrcFile /\ args.Destination = DstBackup) =>
               /\ CopyRequest(0).CopySource = QueryEscape(SrcSlashFile)
               /\ CopyRequest(0).Key = << "b", "a", "c", "k", "u", "p", "/", "f", "i", "l", "e", ".", "t", "x", "t" >>

(***************************************************************************)
(* C10, amended.  A non-recursive run never lists and never makes a second *)
(* copyObject call; when it returns it has issued exactly one copy call,   *)
(* for the path of the source address taken verbatim and the target key    *)
(* path.Join(destination path, source path), and recorded exactly one      *)
(* outcome.  Both paths keep the leading "/" of the URL path:              *)
(* s3://src/file.txt to s3://dst/backup/ is one copy call with CopySource  *)
(* src%2Ffile.txt, bucket dst and key /backup/file.txt.                    *)
(***************************************************************************)
C10_NonRecursiveOneCopy ==
    ~args.Recursive =>
        /\ listCalls = 0
        /\ Launched \subseteq {0}
        /\ workers[0].calls <= 1
        /\ exitStatus = 0 =>
               /\ workers[0].calls = 1
               /\ Count(Reported) = 1
               /\ workers[0].sourcePath = ParseURL(args.Source).url.Path
               /\ workers[0].targetPath =
                      PathJoin(ParseURL(args.Destination).url.Path, ParseURL(args.Source).url.Path)
        /\ (exitStatus = 0 /\ args.Source = SrcFile /\ args.Destination = DstBackup) =>
               CopyRequest(0) = [CopySource |-> QueryEscape(SrcSlashFile),
                                 Bucket |-> << "d", "s", "t" >>,
                                 Key |-> << "/", "b", "a", "c", "k", "u", "p", "/", "f", "i", "l", "e", ".", "t", "x", "t" >>]

\* the scenario of the claim, ended with one success record
C10_Witness ==
    /\ ~args.Recursive
    /\ ~args.Wait
    /\ args.Source = SrcFile
    /\ args.Destination = DstBackup
    /\ exitStatus = 0
    /\ workers[0].calls = 1
    /\ workers[0].outcome = "success"


(***************************************************************************)
(* C11.  Each listed key is consumed exactly once.  No copyObject call     *)
(* ever sends more than one copy request (a failed copy is not retried),   *)
(* the k-th goroutine works on the k-th listed key, so no key is taken     *)
(* twice, and when a recursive batch ends after a successful listing       *)
(* exactly one copy request was sent and one outcome logged for every      *)
(* listed key, and none for anything else.                                 *)
(***************************************************************************)
C11_EachKeyCopiedExactlyOnce ==
    LET keys == Listing
    IN  /\ \A w \in Calls : workers[w].calls <= 1
        /\ \A w \in Goroutines :
              workers[w].pc # "idle" =>
                  /\ w <= Len(keys)
                  /\ workers[w].sourcePath = keys[w]
        /\ (args.Recursive /\ exitStatus = 0) =>
              /\ \A k \in 1..Len(keys) :
                    workers[k].calls = 1 /\ workers[k].outcome # "none"
              /\ Count(Launched) = Len(keys)
              /\ workers[0] = Idle

\* a batch of three keys ended with three copy requests and three outcomes,
\* one of them a failure
C11_Witness ==
    /\ args.Recursive
    /\ exitStatus = 0
    /\ Len(Listing) = 3
    /\ \A k \in 1..3 : workers[k].calls = 1
    /\ Count(Reported) = 3
    /\ \E k \in 1..3 : workers[k].outcome = "copyFailed"

(***************************************************************************)
(* C12.  A configuration error ends the process before any listing request *)
(* or copy call, and each class of configuration error has its own exit    *)
(* status: 1 for an unparsable source, 2 for an unparsable destination, 3  *)
(* for a scheme other than s3, 4 for a session failure; none of them is    *)
(* the listing-failure status, which is only seen when the configuration   *)
(* was valid.                                                              *)
(***************************************************************************)
\* url.Parse of every address of the model
Parsed == [a \in Sources \cup Destinations |-> ParseURL(a)]

\* the class of configuration error of this run, as far as it is decided
ConfigError ==
    LET s == Parsed[args.Source]
        t == Parsed[args.Destination]
    IN  IF s.err # "nil" THEN "source"
        ELSE IF t.err # "nil" THEN "destination"
        ELSE IF s.url.Scheme # S3 \/ t.url.Scheme # S3 THEN "scheme"
        ELSE IF err = "session" THEN "session"
        ELSE "none"

ConfigStatus ==
    [source |-> 1, destination |-> 2, scheme |-> 3, session |-> 4]

C12_ConfigErrorsExitFirst ==
    LET class == ConfigError
    IN  /\ class # "none" =>
              /\ exitStatus \in {-1, ConfigStatus[class]}
              /\ listCalls = 0
              /\ \A w \in Calls : workers[w] = Idle
              /\ ctx = "none"
        /\ class = "none" => exitStatus \notin {1, 2, 3, 4}
        /\ \A c, d \in DOMAIN ConfigStatus :
              /\ c # d => ConfigStatus[c] # ConfigStatus[d]
              /\ ConfigStatus[c] \notin {0, 5}
        /\ ListFailed /\ pc = "exited" => exitStatus = 5

\* a destination that does not parse ended the run with status 2
C12_Witness ==
    /\ ConfigError = "destination"
    /\ exitStatus = 2
    /\ listCalls = 0

(***************************************************************************)
(* C14.  Every copyObject call logs exactly one outcome: none before its   *)
(* remote work is over, one from then on.  The outcome is a success only   *)
(* if the copy request succeeded and, with args.Wait, the wait succeeded   *)
(* too; it is a copy failure exactly when the copy request failed, and     *)
(* then the wait is not called; it is a wait failure, a different record,  *)
(* exactly when the copy succeeded and the wait failed.  Without args.Wait *)
(* the wait is never called.                                               *)
(***************************************************************************)
C14_OneOutcomePerWorker ==
    \A w \in Calls :
        LET k == workers[w]
        IN  /\ k.records = (IF k.outcome = "none" THEN 0 ELSE 1)
            /\ RemoteDone(w) <=> k.records = 1
            /\ k.outcome = "success" <=>
                  /\ RemoteDone(w)
                  /\ k.copyRes = "ok"
                  /\ args.Wait => k.waitRes = "ok"
            /\ k.outcome = "copyFailed" <=> k.copyRes \in {"err", "canceled"}
            /\ k.outcome = "copyFailed" => k.waitCalls = 0 /\ k.waitRes = "none"
            /\ k.outcome = "waitFailed" <=>
                  k.copyRes = "ok" /\ k.waitRes \in {"err", "canceled"}
            /\ k.waitCalls = (IF args.Wait /\ k.copyRes = "ok" THEN 1 ELSE 0)
            /\ ~args.Wait => k.waitCalls = 0 /\ k.waitRes = "none"

\* with args.Wait, three calls ended in the three different outcomes
C14_Witness ==
    /\ args.Wait
    /\ \E a, b, c \in Calls :
          /\ workers[a].pc = "returned" /\ workers[a].outcome = "copyFailed"
          /\ workers[b].pc = "returned" /\ workers[b].outcome = "waitFailed"
          /\ workers[c].pc = "returned" /\ workers[c].outcome = "success"
          /\ workers[a].records = 1 /\ workers[b].records = 1 /\ workers[c].records = 1

(***************************************************************************)
(* C15.  Once the deadline has fired, work that was not finished is        *)
(* reported as failed: in every state in which the process has exited      *)
(* after the deadline fired, every launched copyObject call has logged an  *)
(* outcome, and at most as many of them a success as had finished their    *)
(* remote work when the deadline fired.                                    *)
(***************************************************************************)
C15_UnfinishedWorkReportsFailure ==
    (exitStatus # -1 /\ doneAtDeadline >= 0) =>
        /\ \A w \in Launched : workers[w].outcome # "none"
        /\ Count({w \in Launched : workers[w].outcome = "success"}) <= doneAtDeadline

(***************************************************************************)
(* C16.  As claimed: the deadline cancels the dispatcher's wait for a      *)
(* slot, so once the deadline has fired the dispatcher is never held at    *)
(* the send: whenever it is at the send with the context expired, it can   *)
(* take a step.                                                            *)
(***************************************************************************)
C16_DeadlineCancelsAdmission ==
    (pc = "acquire" /\ ctx = "expired") => ENABLED Acquire

(***************************************************************************)
(* C16, amended.  The send is a plain blocking send: the dispatcher leaves *)
(* it only by putting its element into the channel, which needs a free     *)
(* slot, whether or not the deadline has fired; no other step, the         *)
(* deadline included, moves it.  While it is held at a full channel some   *)
(* goroutine that holds a slot has not returned yet, and it is that        *)
(* goroutine's release that lets the dispatcher go on.                     *)
(***************************************************************************)
AdmissionBlocked == pc = "acquire" /\ semaphore >= args.Concurrency

SlotHolders == {w \in Goroutines : workers[w].pc \notin {"idle", "returned"}}

C16_AdmissionLeftOnlyBySend ==
    /\ [](AdmissionBlocked => Count(SlotHolders) = args.Concurrency)
    /\ [][pc = "acquire" =>
             \/ pc' = "acquire"
             \/ /\ pc' = "spawn"
                /\ semaphore < args.Concurrency
                /\ semaphore' = semaphore + 1]_vars
    /\ [][AdmissionBlocked /\ ctx' # ctx => AdmissionBlocked']_vars

\* the dispatcher is held at a full channel after the deadline has fired
C16_Witness ==
    /\ AdmissionBlocked
    /\ ctx = "expired"

(***************************************************************************)
(* C17.  Listing and dispatch interleave page by page.  When the next page *)
(* is requested, and when the listing has returned, the goroutine of every *)
(* key listed so far has been launched; the keys listed and not yet        *)
(* launched are the rest of the page the callback is ranging over, so      *)
(* never more than one page; goroutines are launched in listing order.     *)
(***************************************************************************)
Dispatching == pc \in {"add", "acquire", "spawn"}

C17_PageByPage ==
    /\ pc \in {"list", "listReturned"} =>
          \A k \in 1..listed : workers[k].pc # "idle"
    /\ Dispatching =>
          /\ cur \in 1..listed
          /\ listed - cur < MaxPageLen
          /\ \A k \in Goroutines : workers[k].pc # "idle" <=> k < cur
    /\ listed <= Len(Listing)
    /\ \A k \in Goroutines : k > listed => workers[k] = Idle

\* the goroutine of a key of the first page has returned, and the request
\* for the next page has not been made yet
C17_Witness ==
    /\ pc = "list"
    /\ listCalls = 1
    /\ listed < Len(Listing)
    /\ workers[1].pc = "returned"

(***************************************************************************)
(* C18.  With args.Timeout <= 0 there is no deadline: the context is never *)
(* done, and no listing request or remote call ever returns the context's  *)
(* error.  With a positive timeout one context with a deadline is created, *)
(* once, before the first listing request and the first copyObject call,   *)
(* and it is the one the listing and every remote call are bound to: once  *)
(* it has expired, whatever listing request, copy call or wait returns     *)
(* next returns its error.                                                 *)
(***************************************************************************)
C18_DeadlineOnlyIfPositive ==
    /\ [](args.Timeout <= 0 =>
             /\ ctx \in {"none", "background"}
             /\ doneAtDeadline = -1
             /\ err # "canceled"
             /\ \A w \in Calls : /\ workers[w].copyRes # "canceled"
                                 /\ workers[w].waitRes # "canceled")
    /\ [](args.Timeout > 0 => ctx # "background")
    /\ [](ctx = "none" => listCalls = 0 /\ \A w \in Calls : workers[w] = Idle)
    /\ [][ctx' = "active" => ctx \in {"none", "active"}]_vars
    /\ [][ctx = "expired" =>
             /\ ctx' = "expired"
             /\ listCalls' # listCalls => err' = "canceled"
             /\ \A w \in Calls :
                   /\ workers'[w].copyRes # workers[w].copyRes =>
                          workers'[w].copyRes = "canceled"
                   /\ workers'[w].waitRes # workers[w].waitRes =>
                          workers'[w].waitRes = "canceled"]_vars

\* a recursive batch without a timeout has run to its end under the
\* background context
C18_Witness ==
    /\ args.Timeout <= 0
    /\ args.Recursive
    /\ exitStatus = 0
    /\ ctx = "background"
    /\ Count(Reported) >= 2

(***************************************************************************)
(* C19.  No release without an acquire.  Without args.Recursive the one    *)
(* copyObject call runs in main's flow: it is not a goroutine, it runs no  *)
(* deferred wg.Done or receive, and the channel and the WaitGroup counter  *)
(* stay at zero through the whole run.  In every mode the channel length   *)
(* and the WaitGroup counter are never negative, the releases never exceed *)
(* the acquisitions, and a goroutine about to run wg.Done or the receive   *)
(* finds the counter positive and an element in the channel.               *)
(***************************************************************************)
C19_NoReleaseWithoutAcquire ==
    /\ ~args.Recursive =>
          /\ semaphore = 0
          /\ wg = 0
          /\ \A w \in Goroutines : workers[w] = Idle
          /\ workers[0].pc \notin {"deferDone", "deferRelease"}
    /\ args.Recursive => workers[0] = Idle
    /\ semaphore >= 0
    /\ wg >= 0
    /\ Released <= Acquired
    /\ semaphore = Acquired - Released
    /\ \A w \in Calls :
          /\ workers[w].pc = "deferDone" => wg > 0
          /\ workers[w].pc = "deferRelease" => semaphore > 0

\* a single copy has ended and main has returned, with the channel and the
\* counter untouched
C19_Witness ==
    /\ ~args.Recursive
    /\ exitStatus = 0
    /\ workers[0].pc = "returned"
    /\ workers[0].outcome # "none"
    /\ semaphore = 0
    /\ wg = 0

(***************************************************************************)
(* C20.  Deadlock freedom, for every accepted value of --concurrency: the  *)
(* dispatcher is never held at the send while no goroutine holds a slot,   *)
(* that is, while nothing is left that could ever receive from the         *)
(* channel.                                                                *)
(***************************************************************************)
C20_NoAdmissionDeadlock ==
    ~(args.Recursive /\ AdmissionBlocked /\ SlotHolders = {})

(***************************************************************************)
(* C13.  Idempotence.  When the same command line has been run twice, the  *)
(* store answering each key's requests in the second run as in the first,  *)
(* no deadline having fired and both runs having returned normally, the    *)
(* second run ends with the same set of successfully copied keys and with  *)
(* the destination bucket as the first run left it.                        *)
(***************************************************************************)
Succeeded(ws) == {w \in Calls : ws[w].outcome = "success"}

=============================================================================
